---- MODULE Spec2Model ----
(***************************************************************************)
(* Model of sample_space.py: the hyperopt sample space of rocket           *)
(* parameters (get_sample_space), the decoder of a sampled vector          *)
(* (parse_args, _scale) and the four preset spaces.                        *)
(*                                                                         *)
(* Python numbers are modelled as binary floating-point values with a     *)
(* MantBits-bit significand and round-to-nearest-even after every          *)
(* arithmetic operation, the way CPython's float (IEEE binary64) rounds.   *)
(* The exponent is unbounded: the inputs are far from overflow.            *)
(***************************************************************************)
EXTENDS Integers, Sequences, FiniteSets, TLC

VARIABLES
    space_all, space_most, space_few, space_body,  \* module-level presets
    pc,        \* which operation ran last
    kwargs,    \* keyword arguments of the last get_sample_space call
    space,     \* list returned by the last get_sample_space call
    src,       \* where the vector came from
    args,      \* vector handed to parse_args
    out        \* outcome of the last parse_args call

vars == <<space_all, space_most, space_few, space_body,
          pc, kwargs, space, src, args, out>>

(***************************************************************************)
(* Bounds of the model.                                                    *)
(***************************************************************************)
MantBits == 10      \* significand width of the modelled float
MaxFixed == 2       \* a caller of get_sample_space names at most this many
                    \* parameters (besides the calls that name all of them)

(***************************************************************************)
(* Floating-point arithmetic.                                              *)
(***************************************************************************)
RECURSIVE Pow2(_)
Pow2(k) == IF k <= 0 THEN 1 ELSE 2 * Pow2(k - 1)

Abs(n) == IF n < 0 THEN -n ELSE n

Sgn(n) == IF n < 0 THEN -1 ELSE IF n = 0 THEN 0 ELSE 1

RECURSIVE BitLen(_)
BitLen(n) == IF n = 0 THEN 0 ELSE 1 + BitLen(n \div 2)

\* A number: m * 2^e, normalised (2^(MantBits-1) <= |m| < 2^MantBits) or zero.
Num(m, e) == [t |-> "num", m |-> m, e |-> e]

Zero == Num(0, 0)

\* Python's None.
None == [t |-> "None"]

\* A raised exception.
Raise(exc) == [t |-> "raise", exc |-> exc]

IsNum(x) == x.t = "num"

IsRaise(x) == x.t = "raise"

\* n * 2^e rounded to MantBits bits, ties to even.
RoundNE(n, e) ==
    LET a == Abs(n)
        k == BitLen(a) - MantBits
    IN  IF n = 0 THEN Zero
        ELSE IF k <= 0 THEN Num(n * Pow2(-k), e + k)
        ELSE LET q  == a \div Pow2(k)
                 r  == a % Pow2(k)
                 h  == Pow2(k - 1)
                 q2 == IF r > h \/ (r = h /\ q % 2 = 1) THEN q + 1 ELSE q
             IN  IF q2 = Pow2(MantBits)
                 THEN Num(Sgn(n) * Pow2(MantBits - 1), e + k + 1)
                 ELSE Num(Sgn(n) * q2, e + k)

\* Brings n/d into [1, 2), adjusting the exponent.
RECURSIVE RatNorm(_, _, _)
RatNorm(n, d, e) ==
    IF n < d THEN RatNorm(2 * n, d, e - 1)
    ELSE IF n >= 2 * d THEN RatNorm(n, 2 * d, e + 1)
    ELSE <<n, d, e>>

\* Long division: the next `bits` quotient bits of n/d and the remainder.
RECURSIVE DivBits(_, _, _, _)
DivBits(n, d, bits, q) ==
    IF bits = 0 THEN <<q, n>>
    ELSE IF n >= d THEN DivBits(2 * (n - d), d, bits - 1, 2 * q + 1)
    ELSE DivBits(2 * n, d, bits - 1, 2 * q)

\* (n / d) * 2^e correctly rounded, for n >= 0 and d > 0.
FromRat(n, d, e) ==
    IF n = 0 THEN Zero
    ELSE LET nd == RatNorm(n, d, e)
             qr == DivBits(nd[1], nd[2], MantBits + 2, 0)
             sticky == IF qr[2] # 0 THEN 1 ELSE 0
         IN  RoundNE(2 * qr[1] + sticky, nd[3] - MantBits - 2)

\* The float nearest to the decimal literal n / d.
Dec(n, d) == FromRat(n, d, 0)

FInt(n) == RoundNE(n, 0)

One == FInt(1)

FNeg(a) == Num(-a.m, a.e)

FMul(a, b) == RoundNE(a.m * b.m, a.e + b.e)

\* a / b for b # 0.
FDiv(a, b) ==
    LET r == FromRat(Abs(a.m), Abs(b.m), a.e - b.e)
    IN  IF Sgn(a.m) * Sgn(b.m) < 0 THEN FNeg(r) ELSE r

\* a + b: the operands are aligned exactly when their exponents differ by at
\* most MantBits + 2; a smaller operand further away only decides the
\* rounding direction.
FAdd(a, b) ==
    IF a.m = 0 THEN b
    ELSE IF b.m = 0 THEN a
    ELSE LET hi == IF a.e >= b.e THEN a ELSE b
             lo == IF a.e >= b.e THEN b ELSE a
             d  == hi.e - lo.e
         IN  IF d <= MantBits + 2
             THEN RoundNE(hi.m * Pow2(d) + lo.m, lo.e)
             ELSE RoundNE(hi.m * Pow2(MantBits + 2) + Sgn(lo.m),
                          hi.e - MantBits - 2)

FSub(a, b) == FAdd(a, FNeg(b))

\* a < b on the exact values.
FLt(a, b) ==
    LET sa == Sgn(a.m)
        sb == Sgn(b.m)
    IN  IF sa # sb THEN sa < sb
        ELSE IF sa = 0 THEN FALSE
        ELSE IF a.e # b.e THEN (IF sa > 0 THEN a.e < b.e ELSE a.e > b.e)
        ELSE a.m < b.m

FLe(a, b) == a = b \/ FLt(a, b)

\* Faulty variant of PowNeg2: a zero base yields a huge finite value, no exception.
PowNeg2Unchecked(x) ==
    IF x.m = 0 THEN Num(Pow2(MantBits - 1), 100)
    ELSE FromRat(1, x.m * x.m, -(2 * x.e))

\* x ** -2; Python raises ZeroDivisionError for a zero base.
PowNeg2(x) ==
    IF x.m = 0 THEN Raise("ZeroDivisionError")
    ELSE FromRat(1, x.m * x.m, -(2 * x.e))

(***************************************************************************)
(* hyperopt parameter expressions: opaque descriptors handed to the      *)
(* external sampler.                                                       *)
(***************************************************************************)
hp_uniform(label, low, high) ==
    [t |-> "uniform", label |-> label, low |-> low, high |-> high]

hp_randint(label, upper) ==
    [t |-> "randint", label |-> label, upper |-> upper]

hp_choice(label, options) ==
    [t |-> "choice", label |-> label, options |-> options]

hp_quniform(label, low, high, q) ==
    [t |-> "quniform", label |-> label, low |-> low, high |-> high, q |-> q]

\* n + expr on a hyperopt expression: the sum expression.
PlusExpr(n, expr) == [t |-> "add", left |-> n, right |-> expr]

IsExpr(x) == x.t \in {"uniform", "randint", "choice", "quniform", "add"}

\* Python truth value: None and zero are falsy.
Truthy(x) == ~(x = None) /\ ~(IsNum(x) /\ x.m = 0)

\* Faulty variant of Or: only None counts as "not given".
OrIfNone(a, b) == IF a = None THEN b ELSE a

\* Python `a or b`.
Or(a, b) == IF Truthy(a) THEN a ELSE b

(***************************************************************************)
(* get_sample_space                                                        *)
(***************************************************************************)
\* The defaults of the signature.
DefaultKwargs ==
    [dry_mass |-> FInt(65), thrust_margin |-> FInt(15),
     radius |-> None, dry_com |-> None,
     nose_len |-> None, body_len |-> None, boat_len |-> None,
     nose_shape |-> None, nose_tip_di |-> None, nose_power |-> None,
     fin_count |-> None, fin_root_chord |-> None, fin_span |-> None,
     fin_tip_chord |-> None, fin_sweep |-> None, fin_thickness |-> None,
     fin_base_sep |-> None, fin_shape |-> None,
     fin_le_rad |-> None, fin_le_len |-> None, fin_te_len |-> None,
     ch4_tube_radius |-> None]

ParamNames == DOMAIN DefaultKwargs

\* Binding of a call's keyword arguments: the parameters not given take
\* their defaults.
Bind(given) ==
    [n \in ParamNames |-> IF n \in DOMAIN given THEN given[n]
                          ELSE DefaultKwargs[n]]

\* Faulty variant of get_sample_space: radius and dry_com change places.
GetSampleSpaceSwapped(kw) ==
    << kw.dry_mass,
       kw.thrust_margin,
       Or(kw.dry_com, hp_uniform("dry_com", FInt(0), FInt(1))),
       Or(kw.radius, hp_uniform("radius", FInt(2), FInt(12))),
       Or(kw.nose_len, hp_uniform("nose_len", FInt(2), FInt(30))),
       Or(kw.body_len, hp_uniform("body_len", Dec(15, 10), FInt(4))),
       Or(kw.boat_len, hp_uniform("boat_len", FInt(0), FInt(10))),
       Or(kw.nose_shape, PlusExpr(FInt(1), hp_randint("nose_shape", 7))),
       Or(kw.nose_tip_di, hp_uniform("nose_tip_di", FInt(0), FInt(2))),
       Or(kw.nose_power, hp_uniform("nose_power", FInt(0), Dec(99, 100))),
       Or(kw.fin_count, hp_choice("fin_count", <<FInt(3), FInt(4)>>)),
       Or(kw.fin_root_chord, hp_uniform("fin_root_chord", FInt(0), FInt(1))),
       Or(kw.fin_span, hp_uniform("fin_span", FInt(0), FInt(1))),
       Or(kw.fin_tip_chord, hp_uniform("fin_tip_chord", FInt(0), FInt(1))),
       Or(kw.fin_sweep, hp_uniform("fin_sweep", FInt(0), FInt(1))),
       Or(kw.fin_thickness,
          hp_quniform("fin_thickness", FInt(1), FInt(10), FInt(1))),
       Or(kw.fin_base_sep, hp_uniform("fin_base_sep", FInt(0), FInt(1))),
       Or(kw.fin_shape, PlusExpr(FInt(1), hp_randint("fin_shape", 9))),
       Or(kw.fin_le_rad, hp_uniform("fin_le_rad", Dec(1, 10), FInt(1))),
       Or(kw.fin_le_len, hp_uniform("fin_le_len", Dec(1, 10), FInt(3))),
       Or(kw.fin_te_len, hp_uniform("fin_te_len", Dec(1, 10), FInt(3))),
       Or(kw.ch4_tube_radius,
          hp_quniform("ch4_tube_radius", FInt(1), FInt(16), FInt(1))) >>

get_sample_space(kw) ==
    << kw.dry_mass,
       kw.thrust_margin,
       Or(kw.radius, hp_uniform("radius", FInt(2), FInt(12))),
       Or(kw.dry_com, hp_uniform("dry_com", FInt(0), FInt(1))),
       Or(kw.nose_len, hp_uniform("nose_len", FInt(2), FInt(30))),
       Or(kw.body_len, hp_uniform("body_len", Dec(15, 10), FInt(4))),
       Or(kw.boat_len, hp_uniform("boat_len", FInt(0), FInt(10))),
       Or(kw.nose_shape, PlusExpr(FInt(1), hp_randint("nose_shape", 7))),
       Or(kw.nose_tip_di, hp_uniform("nose_tip_di", FInt(0), FInt(2))),
       Or(kw.nose_power, hp_uniform("nose_power", FInt(0), Dec(99, 100))),
       Or(kw.fin_count, hp_choice("fin_count", <<FInt(3), FInt(4)>>)),
       Or(kw.fin_root_chord, hp_uniform("fin_root_chord", FInt(0), FInt(1))),
       Or(kw.fin_span, hp_uniform("fin_span", FInt(0), FInt(1))),
       Or(kw.fin_tip_chord, hp_uniform("fin_tip_chord", FInt(0), FInt(1))),
       Or(kw.fin_sweep, hp_uniform("fin_sweep", FInt(0), FInt(1))),
       Or(kw.fin_thickness,
          hp_quniform("fin_thickness", FInt(1), FInt(10), FInt(1))),
       Or(kw.fin_base_sep, hp_uniform("fin_base_sep", FInt(0), FInt(1))),
       Or(kw.fin_shape, PlusExpr(FInt(1), hp_randint("fin_shape", 9))),
       Or(kw.fin_le_rad, hp_uniform("fin_le_rad", Dec(1, 10), FInt(1))),
       Or(kw.fin_le_len, hp_uniform("fin_le_len", Dec(1, 10), FInt(3))),
       Or(kw.fin_te_len, hp_uniform("fin_te_len", Dec(1, 10), FInt(3))),
       Or(kw.ch4_tube_radius,
          hp_quniform("ch4_tube_radius", FInt(1), FInt(16), FInt(1))) >>

(***************************************************************************)
(* _scale and parse_args                                                   *)
(***************************************************************************)
\* Faulty variant of _scale: out-of-range input is clamped, nothing is asserted.
ScaleClamped(in_, min_, max_) ==
    LET v == IF FLt(in_, Zero) THEN Zero
             ELSE IF FLt(One, in_) THEN One ELSE in_
    IN  IF FLt(max_, min_) THEN min_
        ELSE FAdd(FMul(v, FSub(max_, min_)), min_)

\* Faulty variant of _scale: an empty range (min_ = max_) is rejected.
ScaleStrictRange(in_, min_, max_) ==
    IF ~(FLe(Zero, in_) /\ FLe(in_, One)) THEN Raise("AssertionError")
    ELSE IF ~FLt(min_, max_) THEN Raise("AssertionError")
    ELSE FAdd(FMul(in_, FSub(max_, min_)), min_)

_scale(in_, min_, max_) ==
    IF ~(FLe(Zero, in_) /\ FLe(in_, One)) THEN Raise("AssertionError")
    ELSE IF ~FLe(min_, max_) THEN Raise("AssertionError")
    ELSE FAdd(FMul(in_, FSub(max_, min_)), min_)

\* args[i] with Python's zero-based index.
At(a, i) == a[i + 1]

\* Faulty variant of LeRadShapes: shape 7 is forgotten.
LeRadShapesShort == {1, 3, 4, 5, 6}

\* The fin shapes that use each airfoil parameter.
LeRadShapes == {1, 3, 4, 5, 6, 7}

LeLenShapes == {1, 3, 6}

TeLenShapes == {1}

\* Python `x in [..]` on a list of integers.
InList(x, list) == \E s \in list : x = FInt(s)

\* 0.00690077 * ((radius * 0.0254) ** -2) * 39.3701 + 10, given the power.
TankAndEngineLen(pw) ==
    FAdd(FMul(FMul(Dec(690077, 100000000), pw), Dec(393701, 10000)),
         FInt(10))

\* Faulty variant of Decoded: the boat_len key is left out.
DecodedNoBoatLen(a, radius, nose_len, tank_and_engine_len, body_len, fin_root_chord, fin_shape) ==
    [dry_mass |-> At(a, 0),
     thrust_margin |-> At(a, 1),
     radius |-> radius,
     dry_CoM |-> _scale(At(a, 3),
                   FSub(FAdd(nose_len, body_len),
                        FDiv(tank_and_engine_len, FInt(2))),
                   FSub(FAdd(nose_len, body_len),
                        FDiv(tank_and_engine_len, FInt(3)))),
     nose_len |-> nose_len,
     body_len |-> body_len,
     nose_shape |-> At(a, 7),
     nose_tip_di |-> At(a, 8),
     nose_power |-> At(a, 9),
     fin_count |-> At(a, 10),
     fin_root_chord |-> fin_root_chord,
     fin_span |-> _scale(At(a, 12), FInt(2),
                    FDiv(FAdd(body_len, nose_len), FInt(2))),
     fin_tip_chord |-> _scale(At(a, 13), FInt(0), fin_root_chord),
     fin_sweep |-> _scale(At(a, 14), FInt(0), fin_root_chord),
     fin_thickness |-> FDiv(At(a, 15), FInt(8)),
     fin_base_sep |-> _scale(At(a, 16), fin_root_chord,
                        FDiv(FAdd(body_len, nose_len), FInt(2))),
     fin_shape |-> fin_shape,
     fin_le_rad |-> IF InList(fin_shape, LeRadShapes) THEN At(a, 18)
                    ELSE None,
     fin_le_len |-> IF InList(fin_shape, LeLenShapes) THEN At(a, 19)
                    ELSE None,
     fin_te_len |-> IF InList(fin_shape, TeLenShapes) THEN At(a, 20)
                    ELSE None,
     CH4_tube_radius |-> FDiv(At(a, 21), FInt(8))]

\* Faulty variant of Decoded: boat_len and nose_tip_di read each other's slot.
DecodedShifted(a, radius, nose_len, tank_and_engine_len, body_len, fin_root_chord, fin_shape) ==
    [dry_mass |-> At(a, 0),
     thrust_margin |-> At(a, 1),
     radius |-> radius,
     dry_CoM |-> _scale(At(a, 3),
                   FSub(FAdd(nose_len, body_len),
                        FDiv(tank_and_engine_len, FInt(2))),
                   FSub(FAdd(nose_len, body_len),
                        FDiv(tank_and_engine_len, FInt(3)))),
     nose_len |-> nose_len,
     body_len |-> body_len,
     boat_len |-> At(a, 8),
     nose_shape |-> At(a, 7),
     nose_tip_di |-> At(a, 6),
     nose_power |-> At(a, 9),
     fin_count |-> At(a, 10),
     fin_root_chord |-> fin_root_chord,
     fin_span |-> _scale(At(a, 12), FInt(2),
                    FDiv(FAdd(body_len, nose_len), FInt(2))),
     fin_tip_chord |-> _scale(At(a, 13), FInt(0), fin_root_chord),
     fin_sweep |-> _scale(At(a, 14), FInt(0), fin_root_chord),
     fin_thickness |-> FDiv(At(a, 15), FInt(8)),
     fin_base_sep |-> _scale(At(a, 16), fin_root_chord,
                        FDiv(FAdd(body_len, nose_len), FInt(2))),
     fin_shape |-> fin_shape,
     fin_le_rad |-> IF InList(fin_shape, LeRadShapes) THEN At(a, 18)
                    ELSE None,
     fin_le_len |-> IF InList(fin_shape, LeLenShapes) THEN At(a, 19)
                    ELSE None,
     fin_te_len |-> IF InList(fin_shape, TeLenShapes) THEN At(a, 20)
                    ELSE None,
     CH4_tube_radius |-> FDiv(At(a, 21), FInt(8))]

\* The dictionary literal of parse_args; a field whose _scale call raised
\* holds the exception.
Decoded(a, radius, nose_len, tank_and_engine_len, body_len, fin_root_chord, fin_shape) ==
    [dry_mass |-> At(a, 0),
     thrust_margin |-> At(a, 1),
     radius |-> radius,
     dry_CoM |-> _scale(At(a, 3),
                   FSub(FAdd(nose_len, body_len),
                        FDiv(tank_and_engine_len, FInt(2))),
                   FSub(FAdd(nose_len, body_len),
                        FDiv(tank_and_engine_len, FInt(3)))),
     nose_len |-> nose_len,
     body_len |-> body_len,
     boat_len |-> At(a, 6),
     nose_shape |-> At(a, 7),
     nose_tip_di |-> At(a, 8),
     nose_power |-> At(a, 9),
     fin_count |-> At(a, 10),
     fin_root_chord |-> fin_root_chord,
     fin_span |-> _scale(At(a, 12), FInt(2),
                    FDiv(FAdd(body_len, nose_len), FInt(2))),
     fin_tip_chord |-> _scale(At(a, 13), FInt(0), fin_root_chord),
     fin_sweep |-> _scale(At(a, 14), FInt(0), fin_root_chord),
     fin_thickness |-> FDiv(At(a, 15), FInt(8)),
     fin_base_sep |-> _scale(At(a, 16), fin_root_chord,
                        FDiv(FAdd(body_len, nose_len), FInt(2))),
     fin_shape |-> fin_shape,
     fin_le_rad |-> IF InList(fin_shape, LeRadShapes) THEN At(a, 18)
                    ELSE None,
     fin_le_len |-> IF InList(fin_shape, LeLenShapes) THEN At(a, 19)
                    ELSE None,
     fin_te_len |-> IF InList(fin_shape, TeLenShapes) THEN At(a, 20)
                    ELSE None,
     CH4_tube_radius |-> FDiv(At(a, 21), FInt(8))]

\* The outcome of parse_args(a): the dictionary, or the first exception.
parse_args(a) ==
    LET radius == At(a, 2)
        nose_len == At(a, 4)
        body_len_frac == At(a, 5)
        pw == PowNeg2(FMul(radius, Dec(254, 10000)))
    IN  IF IsRaise(pw) THEN pw
        ELSE
        LET tank_and_engine_len == TankAndEngineLen(pw)
            body_len == FMul(body_len_frac, tank_and_engine_len)
            fin_root_chord ==
                _scale(At(a, 11), FInt(2),
                       FDiv(FAdd(body_len, nose_len), FInt(2)))
            fin_shape == At(a, 17)
        IN  IF IsRaise(fin_root_chord) THEN fin_root_chord
            ELSE
            LET d == Decoded(a, radius, nose_len, tank_and_engine_len,
                             body_len, fin_root_chord, fin_shape)
            IN  IF \E k \in DOMAIN d : IsRaise(d[k])
                THEN Raise("AssertionError")
                ELSE [t |-> "return", value |-> d]

(***************************************************************************)
(* The preset spaces, built when the module is loaded.                     *)
(***************************************************************************)
PresetAllKwargs == Bind(<<>>)

PresetMostKwargs ==
    Bind([fin_le_rad |-> Dec(5, 10), fin_le_len |-> Dec(15, 10),
          fin_te_len |-> Dec(15, 10), ch4_tube_radius |-> FInt(8)])

PresetFewKwargs ==
    Bind([fin_le_rad |-> Dec(5, 10), fin_le_len |-> Dec(15, 10),
          fin_te_len |-> Dec(15, 10), ch4_tube_radius |-> FInt(8),
          nose_tip_di |-> FInt(0), fin_thickness |-> FInt(1),
          fin_base_sep |-> FInt(0), nose_power |-> Dec(1, 10)])

PresetBodyKwargs ==
    Bind([fin_le_rad |-> Dec(5, 10), fin_le_len |-> Dec(15, 10),
          fin_te_len |-> Dec(15, 10), ch4_tube_radius |-> FInt(8),
          nose_len |-> FInt(15), nose_shape |-> FInt(1),
          nose_tip_di |-> FInt(0), nose_power |-> FInt(0),
          fin_count |-> FInt(4), fin_root_chord |-> FInt(1),
          fin_span |-> FInt(1), fin_tip_chord |-> Dec(75, 100),
          fin_sweep |-> Dec(33, 100), fin_thickness |-> FInt(1),
          fin_base_sep |-> FInt(0), fin_shape |-> FInt(7)])

(***************************************************************************)
(* Inputs of the operations.                                               *)
(***************************************************************************)
\* One truthy value per parameter, all different, each inside the range the
\* docstring of get_sample_space gives for it.
PinValue ==
    [dry_mass |-> FInt(65), thrust_margin |-> FInt(15),
     radius |-> FInt(10), dry_com |-> Dec(5, 10),
     nose_len |-> FInt(20), body_len |-> FInt(2), boat_len |-> FInt(5),
     nose_shape |-> FInt(3), nose_tip_di |-> Dec(125, 100),
     nose_power |-> Dec(25, 100),
     fin_count |-> FInt(4), fin_root_chord |-> Dec(375, 1000),
     fin_span |-> Dec(625, 1000), fin_tip_chord |-> Dec(75, 100),
     fin_sweep |-> Dec(125, 1000), fin_thickness |-> FInt(6),
     fin_base_sep |-> Dec(875, 1000), fin_shape |-> FInt(1),
     fin_le_rad |-> Dec(3, 10), fin_le_len |-> Dec(15, 10),
     fin_te_len |-> Dec(25, 10), ch4_tube_radius |-> FInt(8)]

\* The sets of at most k parameter names.
RECURSIVE NameSets(_)
NameSets(k) ==
    IF k = 0 THEN {{}}
    ELSE LET prev == NameSets(k - 1)
         IN  prev \cup {ns \cup {p} : ns \in prev, p \in ParamNames}

\* Calls naming at most MaxFixed parameters; a named parameter is given its
\* pin value or 0.
FewGiven ==
    UNION {{[p \in ns |-> IF p \in zs THEN Zero ELSE PinValue[p]] :
               zs \in SUBSET ns} : ns \in NameSets(MaxFixed)}

\* Calls naming all 22 parameters with truthy values.
AllGiven ==
    {[PinValue EXCEPT !.radius = FInt(r), !.nose_len = FInt(n),
                      !.fin_shape = FInt(fs)] :
        r \in {3, 10, 12}, n \in {7, 20}, fs \in 1..9}

\* The slots parse_args feeds into the geometry: radius, dry_com, nose_len,
\* body_len and the fin proportions.
GeomSlots == {2, 3, 4, 5, 11, 12, 13, 14, 16}

\* A value the sampler can draw for a descriptor: an end of its range or,
\* for a uniform range, the middle.
Draw(d, level) ==
    CASE d.t = "uniform" ->
           IF level = "low" THEN d.low
           ELSE IF level = "high" THEN d.high
           ELSE FDiv(FAdd(d.low, d.high), FInt(2))
      [] d.t = "add" ->
           IF level = "low" THEN FAdd(d.left, FInt(0))
           ELSE FAdd(d.left, FInt(d.right.upper - 1))
      [] d.t = "choice" ->
           IF level = "low" THEN d.options[1]
           ELSE d.options[Len(d.options)]
      [] d.t = "quniform" ->
           IF level = "low" THEN d.low ELSE d.high

\* The vector drawn from space s: fixed entries are kept, the geometry
\* descriptors are drawn at the levels lv (radius at level r), the other
\* descriptors at their low end.
DrawVector(s, lv, r) ==
    [i \in 1..Len(s) |->
        IF IsNum(s[i]) THEN s[i]
        ELSE IF i - 1 = 2 THEN Draw(s[i], r)
        ELSE IF i - 1 \in GeomSlots THEN Draw(s[i], lv[i - 1])
        ELSE Draw(s[i], "low")]

\* A typical decoder input.
BaseVector ==
    << FInt(65), FInt(15), FInt(10), Dec(5, 10), FInt(20), FInt(2), FInt(0),
       FInt(1), FInt(1), Dec(5, 10), FInt(3), Dec(5, 10), Dec(5, 10),
       Dec(5, 10), Dec(5, 10), FInt(4), Dec(5, 10), FInt(1), Dec(3, 10),
       Dec(15, 10), Dec(25, 10), FInt(8) >>

\* a with slot i (zero-based) set to x.
With(a, i, x) == [a EXCEPT ![i + 1] = x]

Proportions == {FNeg(Dec(5, 10)), FInt(0), Dec(5, 10), FInt(1), Dec(15, 10)}

\* Vectors a caller supplies directly, valid and invalid.
Supplied ==
    {With(With(With(With(With(With(BaseVector, 2, r), 4, n), 5, f), 11, c),
               16, s), kx[1], kx[2]) :
        r \in {FInt(0), FInt(2), FInt(10)},
        n \in {FInt(2), FInt(20)},
        f \in {FInt(0), FInt(2)},
        c \in {Dec(1, 10), Dec(5, 10), Dec(15, 10)},
        s \in {Dec(5, 10), FInt(1)},
        kx \in ({3, 12, 13, 14, 16} \X Proportions)
                 \cup ({17} \X {FInt(fs) : fs \in 0..10})}

(***************************************************************************)
(* The state machine.                                                      *)
(***************************************************************************)
Init ==
    /\ space_all = get_sample_space(PresetAllKwargs)
    /\ space_most = get_sample_space(PresetMostKwargs)
    /\ space_few = get_sample_space(PresetFewKwargs)
    /\ space_body = get_sample_space(PresetBodyKwargs)
    /\ pc = "loaded"
    /\ kwargs = DefaultKwargs
    /\ space = <<>>
    /\ src = "none"
    /\ args = <<>>
    /\ out = None

\* A caller builds a space.
GetSampleSpace ==
    /\ pc = "loaded"
    /\ \E given \in FewGiven \cup AllGiven :
          /\ kwargs' = Bind(given)
          /\ space' = get_sample_space(Bind(given))
    /\ pc' = "built"
    /\ UNCHANGED <<space_all, space_most, space_few, space_body,
                   src, args, out>>

Preset(name) ==
    CASE name = "space_all" -> space_all
      [] name = "space_most" -> space_most
      [] name = "space_few" -> space_few
      [] name = "space_body" -> space_body

\* The sampler draws a vector from a preset space.
SamplePreset ==
    /\ pc = "loaded"
    /\ \E name \in {"space_all", "space_most", "space_few", "space_body"},
          lv \in [GeomSlots -> {"low", "high"}],
          r \in {"low", "mid", "high"} :
          /\ args' = DrawVector(Preset(name), lv, r)
          /\ src' = name
    /\ pc' = "sampled"
    /\ UNCHANGED <<space_all, space_most, space_few, space_body,
                   kwargs, space, out>>

\* A space in which every slot is fixed leaves the sampler no choice.
SampleBuilt ==
    /\ pc = "built"
    /\ \A i \in 1..Len(space) : IsNum(space[i])
    /\ args' = space
    /\ src' = "space"
    /\ pc' = "sampled"
    /\ UNCHANGED <<space_all, space_most, space_few, space_body,
                   kwargs, space, out>>

\* A caller supplies a vector of its own.
Supply ==
    /\ pc = "loaded"
    /\ \E v \in Supplied : args' = v
    /\ src' = "caller"
    /\ pc' = "sampled"
    /\ UNCHANGED <<space_all, space_most, space_few, space_body,
                   kwargs, space, out>>

ParseArgs ==
    /\ pc = "sampled"
    /\ out' = parse_args(args)
    /\ pc' = "parsed"
    /\ UNCHANGED <<space_all, space_most, space_few, space_body,
                   kwargs, space, src, args>>

Next ==
    \/ GetSampleSpace
    \/ SamplePreset
    \/ SampleBuilt
    \/ Supply
    \/ ParseArgs

Spec == Init /\ [][Next]_vars

(***************************************************************************)
(* Properties of get_sample_space and the presets.                         *)
(***************************************************************************)
\* The canonical slot table: slot i (zero-based) is CanonicalSlots[i + 1].
CanonicalSlots ==
    << "dry_mass", "thrust_margin", "radius", "dry_com", "nose_len",
       "body_len", "boat_len", "nose_shape", "nose_tip_di", "nose_power",
       "fin_count", "fin_root_chord", "fin_span", "fin_tip_chord",
       "fin_sweep", "fin_thickness", "fin_base_sep", "fin_shape",
       "fin_le_rad", "fin_le_len", "fin_te_len", "ch4_tube_radius" >>

\* The parameter a descriptor is labelled with.
LabelOf(d) == IF d.t = "add" THEN d.right.label ELSE d.label

\* Entry i of list s is the scalar given for slot i or a descriptor of it.
SlotsInOrder(s, kw) ==
    /\ Len(s) = 22
    /\ \A i \in 1..22 :
          \/ IsNum(s[i]) /\ s[i] = kw[CanonicalSlots[i]]
          \/ IsExpr(s[i]) /\ LabelOf(s[i]) = CanonicalSlots[i]

\* C1: every list get_sample_space returns, for a caller or for a preset,
\* has 22 entries, and entry i is the value given for the i-th slot of the
\* canonical table or a descriptor labelled with that slot, whatever subset
\* of the parameters was given.
C1_OrderStability ==
    /\ pc = "built" => SlotsInOrder(space, kwargs)
    /\ SlotsInOrder(space_all, PresetAllKwargs)
    /\ SlotsInOrder(space_most, PresetMostKwargs)
    /\ SlotsInOrder(space_few, PresetFewKwargs)
    /\ SlotsInOrder(space_body, PresetBodyKwargs)

\* A call that fixed radius and nose_len and left dry_com between them
\* learnable.
C1_Witness ==
    /\ pc = "built"
    /\ IsNum(space[3]) /\ IsExpr(space[4]) /\ IsNum(space[5])
    /\ space[3] # space[5]

\* The kind and the bounds of a descriptor, read off the expression:
\* uniform <<low, high>>, integer <<first, last>>, choice <<options>>,
\* quantized <<low, high, step>>.
KindOf(d) ==
    CASE d.t = "uniform" -> <<"uniform", d.low, d.high>>
      [] d.t = "add" /\ d.right.t = "randint" ->
           <<"integer", d.left, FAdd(d.left, FInt(d.right.upper - 1))>>
      [] d.t = "choice" ->
           <<"choice", {d.options[j] : j \in 1..Len(d.options)}>>
      [] d.t = "quniform" -> <<"quantized", d.low, d.high, d.q>>
      [] OTHER -> <<"other">>

\* The default distribution of each learnable slot in the canonical table.
TableDefaults ==
    [radius |-> <<"uniform", FInt(2), FInt(12)>>,
     dry_com |-> <<"uniform", FInt(0), FInt(1)>>,
     nose_len |-> <<"uniform", FInt(2), FInt(30)>>,
     body_len |-> <<"uniform", Dec(15, 10), FInt(4)>>,
     boat_len |-> <<"uniform", FInt(0), FInt(10)>>,
     nose_shape |-> <<"integer", FInt(1), FInt(7)>>,
     nose_tip_di |-> <<"uniform", FInt(0), FInt(2)>>,
     nose_power |-> <<"uniform", FInt(0), Dec(99, 100)>>,
     fin_count |-> <<"choice", {FInt(3), FInt(4)}>>,
     fin_root_chord |-> <<"uniform", FInt(0), FInt(1)>>,
     fin_span |-> <<"uniform", FInt(0), FInt(1)>>,
     fin_tip_chord |-> <<"uniform", FInt(0), FInt(1)>>,
     fin_sweep |-> <<"uniform", FInt(0), FInt(1)>>,
     fin_thickness |-> <<"quantized", FInt(1), FInt(10), FInt(1)>>,
     fin_base_sep |-> <<"uniform", FInt(0), FInt(1)>>,
     fin_shape |-> <<"integer", FInt(1), FInt(9)>>,
     fin_le_rad |-> <<"uniform", Dec(1, 10), FInt(1)>>,
     fin_le_len |-> <<"uniform", Dec(1, 10), FInt(3)>>,
     fin_te_len |-> <<"uniform", Dec(1, 10), FInt(3)>>,
     ch4_tube_radius |-> <<"quantized", FInt(1), FInt(16), FInt(1)>>]

\* The learnable slots, as indices into the returned list.
Learnable == 3..22

HoldsDefault(s, i) ==
    /\ IsExpr(s[i])
    /\ LabelOf(s[i]) = CanonicalSlots[i]
    /\ KindOf(s[i]) = TableDefaults[CanonicalSlots[i]]

Pinned(s) == Cardinality({i \in Learnable : IsNum(s[i])})

OthersDefault(s) == \A i \in Learnable : IsNum(s[i]) \/ HoldsDefault(s, i)

\* C3: the presets hold 0 (space_all), 4 (space_most), 8 (space_few) and 15
\* (space_body) pinned constants among their learnable slots, and every
\* other learnable slot holds its default descriptor.
C3_PresetPinCounts ==
    /\ Pinned(space_all) = 0 /\ OthersDefault(space_all)
    /\ Pinned(space_most) = 4 /\ OthersDefault(space_most)
    /\ Pinned(space_few) = 8 /\ OthersDefault(space_few)
    /\ Pinned(space_body) = 15 /\ OthersDefault(space_body)

(***************************************************************************)
(* Properties of parse_args.                                               *)
(***************************************************************************)
Returned == pc = "parsed" /\ out.t = "return"

\* x is one of the integers of list.
AmongInts(x, list) == x \in {FInt(k) : k \in list}

\* C4: in every dictionary parse_args returns, fin_le_rad is the value at
\* index 18 if fin_shape (index 17) is 1, 3, 4, 5, 6 or 7 and None otherwise;
\* fin_le_len is the value at index 19 if fin_shape is 1, 3 or 6 and None
\* otherwise; fin_te_len is the value at index 20 if fin_shape is 1 and None
\* otherwise.
C4_ConditionalNulling ==
    Returned =>
        LET fs == At(args, 17)
            d  == out.value
        IN  /\ d.fin_le_rad = IF AmongInts(fs, {1, 3, 4, 5, 6, 7})
                              THEN At(args, 18) ELSE None
            /\ d.fin_le_len = IF AmongInts(fs, {1, 3, 6})
                              THEN At(args, 19) ELSE None
            /\ d.fin_te_len = IF fs = FInt(1) THEN At(args, 20) ELSE None

\* A decoded vector with fin_shape 7: only fin_le_rad is present.
C4_Witness ==
    /\ Returned
    /\ At(args, 17) = FInt(7)
    /\ out.value.fin_le_rad = At(args, 18)
    /\ out.value.fin_le_len = None
    /\ out.value.fin_te_len = None

\* C5 as stated: every dictionary parse_args returns has exactly 21 keys.
C5_TwentyOneKeys ==
    Returned => Cardinality(DOMAIN out.value) = 21

\* C5 amended: every dictionary parse_args returns has exactly 22 keys, one
\* per slot of the input vector.
C5_TwentyTwoKeys ==
    Returned =>
        DOMAIN out.value =
            {"dry_mass", "thrust_margin", "radius", "dry_CoM", "nose_len",
             "body_len", "boat_len", "nose_shape", "nose_tip_di",
             "nose_power", "fin_count", "fin_root_chord", "fin_span",
             "fin_tip_chord", "fin_sweep", "fin_thickness", "fin_base_sep",
             "fin_shape", "fin_le_rad", "fin_le_len", "fin_te_len",
             "CH4_tube_radius"}

\* A returned dictionary of 22 keys for a 22-element vector.
C5_Witness ==
    /\ Returned
    /\ Len(args) = 22
    /\ Cardinality(DOMAIN out.value) = 22

\* C6: parse_args on a vector whose radius (index 2) is 0 raises and returns
\* no dictionary, whatever the other entries are.
C6_DegenerateRadius ==
    (pc = "parsed" /\ At(args, 2) = Zero) => IsRaise(out)

\* A vector with radius 0, otherwise valid, was decoded and raised
\* ZeroDivisionError.
C6_Witness ==
    /\ pc = "parsed"
    /\ At(args, 2) = Zero
    /\ At(args, 5) = FInt(2)
    /\ \A i \in {3, 11, 12, 13, 14, 16} :
          FLe(Zero, At(args, i)) /\ FLe(At(args, i), One)
    /\ out = Raise("ZeroDivisionError")

\* The slots parse_args passes to _scale as the proportion.
ProportionSlots == {3, 11, 12, 13, 14, 16}

InUnit(x) == FLe(Zero, x) /\ FLe(x, One)

\* The <<lo, hi>> ranges parse_args computes for its _scale calls, for a
\* vector with nonzero radius; the two ranges bounded by fin_root_chord
\* exist once fin_root_chord was computed.
ScaleRanges(a) ==
    LET nose_len == At(a, 4)
        t == TankAndEngineLen(PowNeg2(FMul(At(a, 2), Dec(254, 10000))))
        body_len == FMul(At(a, 5), t)
        half == FDiv(FAdd(body_len, nose_len), FInt(2))
        frc == _scale(At(a, 11), FInt(2), half)
    IN  {<<FInt(2), half>>,
         <<FSub(FAdd(nose_len, body_len), FDiv(t, FInt(2))),
           FSub(FAdd(nose_len, body_len), FDiv(t, FInt(3)))>>}
        \cup (IF IsRaise(frc) THEN {}
              ELSE {<<FInt(0), frc>>, <<frc, half>>})

InvertedRange(a) ==
    /\ At(a, 2) # Zero
    /\ \E r \in ScaleRanges(a) : FLt(r[2], r[1])

\* C7: when a vector has a proportion slot (index 3, 11, 12, 13, 14, 16)
\* outside [0, 1], or makes a range computed for _scale have lo > hi,
\* parse_args raises: it returns no dictionary and clamps nothing.
C7_ScalePreconditions ==
    (/\ pc = "parsed"
     /\ \/ \E i \in ProportionSlots : ~InUnit(At(args, i))
        \/ InvertedRange(args))
    => IsRaise(out)

\* A vector with nonzero radius and sound ranges whose fin_base_sep
\* proportion is 1.5 was decoded and raised AssertionError.
C7_Witness ==
    /\ pc = "parsed"
    /\ At(args, 2) # Zero
    /\ ~InvertedRange(args)
    /\ At(args, 16) = Dec(15, 10)
    /\ \A i \in ProportionSlots \ {16} : InUnit(At(args, i))
    /\ out = Raise("AssertionError")

\* A vector whose proportions are all in [0, 1] but whose body and nose are
\* so short that (body_len + nose_len) / 2 < 2 was decoded and raised.
C7_WitnessRange ==
    /\ pc = "parsed"
    /\ \A i \in ProportionSlots : InUnit(At(args, i))
    /\ InvertedRange(args)
    /\ out = Raise("AssertionError")

Between(lo, x, hi) == FLe(lo, x) /\ FLe(x, hi)

\* C9: in every dictionary parse_args returns,
\*   2 <= fin_root_chord <= (body_len + nose_len) / 2,
\*   2 <= fin_span <= (body_len + nose_len) / 2,
\*   0 <= fin_tip_chord <= fin_root_chord,
\*   0 <= fin_sweep <= fin_root_chord,
\*   fin_root_chord <= fin_base_sep <= (body_len + nose_len) / 2 and
\*   nose_len + body_len - T/2 <= dry_CoM <= nose_len + body_len - T/3,
\* with T the tank_and_engine_len of the call and body_len = args[5] * T.
C9_InterdependentBounds ==
    Returned =>
        LET d == out.value
            t == TankAndEngineLen(PowNeg2(FMul(At(args, 2),
                                               Dec(254, 10000))))
            half == FDiv(FAdd(d.body_len, d.nose_len), FInt(2))
        IN  /\ d.body_len = FMul(At(args, 5), t)
            /\ Between(FInt(2), d.fin_root_chord, half)
            /\ Between(FInt(2), d.fin_span, half)
            /\ Between(FInt(0), d.fin_tip_chord, d.fin_root_chord)
            /\ Between(FInt(0), d.fin_sweep, d.fin_root_chord)
            /\ Between(d.fin_root_chord, d.fin_base_sep, half)
            /\ Between(FSub(FAdd(d.nose_len, d.body_len), FDiv(t, FInt(2))),
                       d.dry_CoM,
                       FSub(FAdd(d.nose_len, d.body_len), FDiv(t, FInt(3))))

(***************************************************************************)
(* Properties of the two together.                                         *)
(***************************************************************************)
\* The keys parse_args copies from the vector unchanged.
VerbatimKeys ==
    {"dry_mass", "thrust_margin", "radius", "nose_len", "boat_len",
     "nose_shape", "nose_tip_di", "nose_power", "fin_count", "fin_shape"}

\* The decoding of a fully given call by parameter name: what parse_args
\* must return if it reads every parameter from the slot get_sample_space
\* put it in.
DecodedByName(kw) ==
    LET t == TankAndEngineLen(PowNeg2(FMul(kw.radius, Dec(254, 10000))))
        body_len == FMul(kw.body_len, t)
        half == FDiv(FAdd(body_len, kw.nose_len), FInt(2))
        frc == _scale(kw.fin_root_chord, FInt(2), half)
    IN  [dry_mass |-> kw.dry_mass,
         thrust_margin |-> kw.thrust_margin,
         radius |-> kw.radius,
         dry_CoM |-> _scale(kw.dry_com,
                       FSub(FAdd(kw.nose_len, body_len), FDiv(t, FInt(2))),
                       FSub(FAdd(kw.nose_len, body_len), FDiv(t, FInt(3)))),
         nose_len |-> kw.nose_len,
         body_len |-> body_len,
         boat_len |-> kw.boat_len,
         nose_shape |-> kw.nose_shape,
         nose_tip_di |-> kw.nose_tip_di,
         nose_power |-> kw.nose_power,
         fin_count |-> kw.fin_count,
         fin_root_chord |-> frc,
         fin_span |-> _scale(kw.fin_span, FInt(2), half),
         fin_tip_chord |-> _scale(kw.fin_tip_chord, FInt(0), frc),
         fin_sweep |-> _scale(kw.fin_sweep, FInt(0), frc),
         fin_thickness |-> FDiv(kw.fin_thickness, FInt(8)),
         fin_base_sep |-> _scale(kw.fin_base_sep, frc, half),
         fin_shape |-> kw.fin_shape,
         fin_le_rad |-> IF AmongInts(kw.fin_shape, {1, 3, 4, 5, 6, 7})
                        THEN kw.fin_le_rad ELSE None,
         fin_le_len |-> IF AmongInts(kw.fin_shape, {1, 3, 6})
                        THEN kw.fin_le_len ELSE None,
         fin_te_len |-> IF kw.fin_shape = FInt(1)
                        THEN kw.fin_te_len ELSE None,
         CH4_tube_radius |-> FDiv(kw.ch4_tube_radius, FInt(8))]

\* C8: get_sample_space and parse_args use the same slot order.  When the
\* list returned for a call with all 22 parameters truthy is decoded, every
\* output key is computed from the value passed under its own name
\* (dry_com for dry_CoM, ch4_tube_radius for CH4_tube_radius), and each
\* verbatim key holds exactly the value passed under that name.
C8_SameSlotOrder ==
    (pc = "parsed" /\ src = "space") =>
        /\ \A i \in 1..22 : args[i] = kwargs[CanonicalSlots[i]]
        /\ out.t = "return"
        /\ \A k \in VerbatimKeys : out.value[k] = kwargs[k]
        /\ out.value = DecodedByName(kwargs)

\* The list of a call with all 22 parameters truthy and different was
\* decoded.
C8_Witness ==
    /\ pc = "parsed" /\ src = "space"
    /\ \A p \in ParamNames : Truthy(kwargs[p])
    /\ \A p, q \in ParamNames : p # q => kwargs[p] # kwargs[q]
    /\ out.t = "return"
    /\ out.value.boat_len = kwargs.boat_len

Presets == {"space_all", "space_most", "space_few", "space_body"}

\* C10: parse_args returns a dictionary for every vector drawn from a
\* preset space; in particular (body_len + nose_len) / 2 >= 2 and
\* fin_root_chord <= (body_len + nose_len) / 2 there.
C10_PresetsDecode ==
    (pc = "parsed" /\ src \in Presets) =>
        /\ out.t = "return"
        /\ LET half == FDiv(FAdd(out.value.body_len, out.value.nose_len),
                            FInt(2))
           IN  /\ FLe(FInt(2), half)
               /\ FLe(out.value.fin_root_chord, half)

\* A vector drawn from space_body, where fin_root_chord is pinned to 1 and
\* the range of fin_base_sep is a single point, was decoded.
C10_Witness ==
    /\ pc = "parsed" /\ src = "space_body"
    /\ out.t = "return"
    /\ At(args, 11) = FInt(1)
    /\ out.value.fin_root_chord =
          FDiv(FAdd(out.value.body_len, out.value.nose_len), FInt(2))

====
